---- MODULE Spec2Model ----
(***************************************************************************)
(* Model of the sort-imports ESLint rule (src/rules/sort-imports.js).      *)
(*                                                                         *)
(* Strings are sequences of UTF-16 code units, so that JavaScript's string *)
(* comparison, toLowerCase, slice and trim are computed, not assumed.      *)
(* JavaScript array indices are 0-based; sequences here are 1-based, and   *)
(* every operator that takes or returns an index says which it uses.       *)
(*                                                                         *)
(* Two specifications:                                                     *)
(*   Spec        the rule run by ESLint's fix loop on a list of import     *)
(*               declarations: Program reports, ApplyFix applies a fix and *)
(*               the rule runs again on the rewritten module;              *)
(*   SpliceSpec  a fixer callback on concrete source text: sortNodes,      *)
(*               trim and replaceTextRange over nodes with ranges.         *)
(***************************************************************************)
EXTENDS Integers, Sequences, FiniteSets

VARIABLES
    pc,            \* "parsed" | "reported" (Spec); "ready" | "fixed" (SpliceSpec)
    imports,       \* node.body.filter(isImportDeclaration), in source order
    sortMembers,   \* option, line 38
    caseSensitive, \* option, line 39
    reports,       \* the context.report calls of the last Program run, in order
    before,        \* the import list the last applied fix was computed from
    text,          \* source.getText(): the whole source text
    original,      \* the nodes handed to sortNodes, in source order, each with its range
    sorted,        \* the same nodes in the target order
    result,        \* what sortNodes returned
    replacement    \* the fix object returned by fixer.replaceTextRange

vars == <<pc, imports, sortMembers, caseSensitive, reports, before,
          text, original, sorted, result, replacement>>

ruleVars == <<imports, sortMembers, caseSensitive, reports, before>>
spliceVars == <<text, original, sorted, result, replacement>>

(***************************************************************************)
(* Bounds                                                                  *)
(***************************************************************************)
MaxImports == 3
MaxNodes == 3

(***************************************************************************)
(* JavaScript strings                                                      *)
(***************************************************************************)
Min(S) == CHOOSE x \in S : \A y \in S : x <= y

\* a < b on strings: code unit by code unit, a proper prefix is smaller
StrLess(a, b) ==
    LET n == IF Len(a) < Len(b) THEN Len(a) ELSE Len(b)
        diff == {i \in 1..n : a[i] # b[i]}
    IN  IF diff = {} THEN Len(a) < Len(b)
        ELSE a[Min(diff)] < b[Min(diff)]

\* String.prototype.toLowerCase on the ASCII letters
toLowerCase(s) ==
    [i \in 1..Len(s) |-> IF s[i] >= 65 /\ s[i] <= 90 THEN s[i] + 32 ELSE s[i]]

WhiteSpace == {9, 10, 11, 12, 13, 32}

\* String.prototype.trim
trim(s) ==
    LET keep == {i \in 1..Len(s) : s[i] \notin WhiteSpace}
    IN  IF keep = {} THEN <<>>
        ELSE SubSeq(s, Min(keep), CHOOSE m \in keep : \A k \in keep : k <= m)

\* String.prototype.slice(from, to) with 0-based offsets, 0 <= from <= to <= length
slice(s, from, to) == SubSeq(s, from + 1, to)

(***************************************************************************)
(* Sample inputs                                                           *)
(***************************************************************************)
\* "a", "b", "./a", "./b"
ModuleNames == {<<97>>, <<98>>, <<46, 47, 97>>, <<46, 47, 98>>}

Specifier(type, name) == [type |-> type, local |-> name]

\* import './x'  |  import {b, a} from  |  import d, {B, a} from
SpecifierLists ==
    { <<>>,
      <<Specifier("ImportSpecifier", <<98>>), Specifier("ImportSpecifier", <<97>>)>>,
      <<Specifier("ImportDefaultSpecifier", <<100>>),
        Specifier("ImportSpecifier", <<66>>), Specifier("ImportSpecifier", <<97>>)>> }

\* an ImportDeclaration node; id is the node's identity
Declarations(ids) ==
    [id : ids, source : ModuleNames, specifiers : SpecifierLists]

ImportLists ==
    UNION { {l \in [1..n -> Declarations(1..n)] : \A i \in 1..n : l[i].id = i}
            : n \in 0..MaxImports }

(***************************************************************************)
(* Leaf helpers, lines 227-257                                             *)
(***************************************************************************)
getModuleName(node) == node.source

\* name[0] !== '.'  (name[0] of the empty string is undefined)
isAbsolute(name) == IF Len(name) = 0 THEN TRUE ELSE name[1] # 46

isImportSpecifier(node) == node.type = "ImportSpecifier"

isEmptyImport(node) == Len(node.specifiers) = 0

getSpecifierName(specifier) ==
    IF caseSensitive THEN specifier.local ELSE toLowerCase(specifier.local)


(***************************************************************************)
(* Binding Sorter, lines 49-65 and 176-192                                 *)
(***************************************************************************)
\* Truthiness of isSmallerThanPrevious(name, index, array); index is 0-based.
\* Every return of the function is `false`, and the path through both ifs
\* falls off the end and returns undefined, which findIndex treats as false.
isSmallerThanPrevious(name, index, array) ==
    IF index = 0 THEN FALSE
    ELSE LET prev == array[index]            \* array[index - 1], 0-based
             isModuleAbsolute == isAbsolute(name)
             isPrevAbsolute == isAbsolute(prev)
         IN  IF isPrevAbsolute /\ ~isModuleAbsolute THEN FALSE
             ELSE IF isModuleAbsolute /\ ~isPrevAbsolute THEN FALSE
             ELSE FALSE

\* Array.prototype.findIndex(isSmallerThanPrevious): 0-based, -1 when none
findUnsortedIndex(names) ==
    LET hits == {i \in 0..(Len(names) - 1) :
                    isSmallerThanPrevious(names[i + 1], i, names)}
    IN  IF hits = {} THEN -1 ELSE Min(hits)

\* the named specifiers of a declaration and their sort keys, lines 51-53
namedSpecifiers(declaration) == SelectSeq(declaration.specifiers, isImportSpecifier)

specifierNames(declaration) ==
    LET specifiers == namedSpecifiers(declaration)
    IN  [i \in 1..Len(specifiers) |-> getSpecifierName(specifiers[i])]

\* the context.report of lines 56-63 for the declaration at 0-based position index
MemberReport(declaration, index) ==
    LET unsortedMemberIndex == findUnsortedIndex(specifierNames(declaration))
    IN  IF unsortedMemberIndex # -1
        THEN << [kind |-> "UnsortedBinding", index |-> index,
                 member |-> unsortedMemberIndex, fix |-> "fixImportMembers"] >>
        ELSE <<>>

(***************************************************************************)
(* Declaration Order Checker, lines 68-120                                 *)
(***************************************************************************)
\* DeclReport with the fix passed to the wrong reports: to the duplicate
\* report, and not to the empty-import report
DeclReportFixless(prev, current, index) ==
    LET prevName == getModuleName(prev)
        currentName == getModuleName(current)
        isPrevEmpty == isEmptyImport(prev)
        isCurrentEmpty == isEmptyImport(current)
        isPrevAbsolute == isAbsolute(prevName)
        isCurrentAbsolute == isAbsolute(currentName)
        report(kind, fix) ==
            << [kind |-> kind, index |-> index, member |-> -1, fix |-> fix] >>
    IN  IF prevName = currentName
        THEN report("DuplicateModule", "fixImportDefinitions")
        ELSE IF (isPrevEmpty /\ ~isCurrentEmpty) \/ (isPrevAbsolute /\ ~isCurrentAbsolute)
        THEN <<>>
        ELSE IF ~isPrevEmpty /\ isCurrentEmpty
        THEN report("EmptyImportOutOfOrder", "none")
        ELSE IF ~isPrevAbsolute /\ isCurrentAbsolute
        THEN report("AbsoluteImportOutOfOrder", "fixImportDefinitions")
        ELSE IF StrLess(currentName, prevName)
        THEN report("AlphabeticalOutOfOrder", "fixImportDefinitions")
        ELSE <<>>

\* DeclReport with the alphabetical test moved before the short-circuit
DeclReportAlphabeticalFirst(prev, current, index) ==
    LET prevName == getModuleName(prev)
        currentName == getModuleName(current)
        isPrevEmpty == isEmptyImport(prev)
        isCurrentEmpty == isEmptyImport(current)
        isPrevAbsolute == isAbsolute(prevName)
        isCurrentAbsolute == isAbsolute(currentName)
        report(kind, fix) ==
            << [kind |-> kind, index |-> index, member |-> -1, fix |-> fix] >>
    IN  IF prevName = currentName
        THEN report("DuplicateModule", "none")
        ELSE IF StrLess(currentName, prevName)
        THEN report("AlphabeticalOutOfOrder", "fixImportDefinitions")
        ELSE IF (isPrevEmpty /\ ~isCurrentEmpty) \/ (isPrevAbsolute /\ ~isCurrentAbsolute)
        THEN <<>>
        ELSE IF ~isPrevEmpty /\ isCurrentEmpty
        THEN report("EmptyImportOutOfOrder", "fixImportDefinitions")
        ELSE IF ~isPrevAbsolute /\ isCurrentAbsolute
        THEN report("AbsoluteImportOutOfOrder", "fixImportDefinitions")
        ELSE <<>>

\* DeclReport with the duplicate test moved after the short-circuit
DeclReportDuplicateLate(prev, current, index) ==
    LET prevName == getModuleName(prev)
        currentName == getModuleName(current)
        isPrevEmpty == isEmptyImport(prev)
        isCurrentEmpty == isEmptyImport(current)
        isPrevAbsolute == isAbsolute(prevName)
        isCurrentAbsolute == isAbsolute(currentName)
        report(kind, fix) ==
            << [kind |-> kind, index |-> index, member |-> -1, fix |-> fix] >>
    IN  IF (isPrevEmpty /\ ~isCurrentEmpty) \/ (isPrevAbsolute /\ ~isCurrentAbsolute)
        THEN <<>>
        ELSE IF prevName = currentName
        THEN report("DuplicateModule", "none")
        ELSE IF ~isPrevEmpty /\ isCurrentEmpty
        THEN report("EmptyImportOutOfOrder", "fixImportDefinitions")
        ELSE IF ~isPrevAbsolute /\ isCurrentAbsolute
        THEN report("AbsoluteImportOutOfOrder", "fixImportDefinitions")
        ELSE IF StrLess(currentName, prevName)
        THEN report("AlphabeticalOutOfOrder", "fixImportDefinitions")
        ELSE <<>>

\* The callback of imports.forEach at lines 68-120 for index >= 1 (0-based):
\* the sequence of its context.report calls, empty or one report.
DeclReport(prev, current, index) ==
    LET prevName == getModuleName(prev)
        currentName == getModuleName(current)
        isPrevEmpty == isEmptyImport(prev)
        isCurrentEmpty == isEmptyImport(current)
        isPrevAbsolute == isAbsolute(prevName)
        isCurrentAbsolute == isAbsolute(currentName)
        report(kind, fix) ==
            << [kind |-> kind, index |-> index, member |-> -1, fix |-> fix] >>
    IN  IF prevName = currentName
        THEN report("DuplicateModule", "none")
        ELSE IF (isPrevEmpty /\ ~isCurrentEmpty) \/ (isPrevAbsolute /\ ~isCurrentAbsolute)
        THEN <<>>
        ELSE IF ~isPrevEmpty /\ isCurrentEmpty
        THEN report("EmptyImportOutOfOrder", "fixImportDefinitions")
        ELSE IF ~isPrevAbsolute /\ isCurrentAbsolute
        THEN report("AbsoluteImportOutOfOrder", "fixImportDefinitions")
        ELSE IF StrLess(currentName, prevName)
        THEN report("AlphabeticalOutOfOrder", "fixImportDefinitions")
        ELSE <<>>

RECURSIVE ConcatAll(_)
ConcatAll(ss) == IF ss = <<>> THEN <<>> ELSE Head(ss) \o ConcatAll(Tail(ss))

\* lines 49-65: one pass over the declarations, when sortMembers is on
MemberReports(list) ==
    IF sortMembers
    THEN ConcatAll([i \in 1..Len(list) |-> MemberReport(list[i], i - 1)])
    ELSE <<>>

\* lines 68-120: one pass over the adjacent pairs (index 0 returns at once)
DeclReports(list) ==
    ConcatAll([i \in 1..Len(list) |->
                 IF i = 1 THEN <<>> ELSE DeclReport(list[i - 1], list[i], i - 1)])

(***************************************************************************)
(* Array.prototype.sort, as called at lines 127 and 145.  The array is     *)
(* sorted through m, the matrix of the comparator's answers:               *)
(* m[i][j] = comparefn(array[i], array[j]) for 1-based positions of the    *)
(* array being sorted; the outcome is a sequence of those positions.       *)
(* For a comparator that is not a consistent ordering the language leaves  *)
(* the order to the engine; the two algorithms V8 has used for arrays of   *)
(* this size are both modelled and ApplyFix may take either.               *)
(***************************************************************************)
RECURSIVE InsertionPoint(_, _, _, _)
\* V8 (before 7.0) InsertionSort, used for arrays of up to 10 elements: the
\* inner loop; j is 1-based, the result is the position after which element
\* is stored
InsertionPoint(a, element, j, m) ==
    IF j >= 1 /\ m[a[j]][element] > 0
    THEN InsertionPoint(a, element, j - 1, m)
    ELSE j

RECURSIVE InsertionSortFrom(_, _, _, _)
InsertionSortFrom(a, i, n, m) ==
    IF i > n THEN a
    ELSE LET j == InsertionPoint(a, i, i - 1, m)
         IN  InsertionSortFrom(SubSeq(a, 1, j) \o <<i>> \o SubSeq(a, j + 1, i - 1),
                               i + 1, n, m)

InsertionSort(n, m) == InsertionSortFrom(<<>>, 1, n, m)

RECURSIVE RunLength(_, _, _, _)
\* V8 TimSort CountAndMakeRun's loop: idx is the 1-based position examined
RunLength(idx, isDescending, n, m) ==
    IF idx > n THEN idx - 1
    ELSE LET order == m[idx][idx - 1]
         IN  IF (isDescending /\ order >= 0) \/ (~isDescending /\ order < 0)
             THEN idx - 1
             ELSE RunLength(idx + 1, isDescending, n, m)

RECURSIVE BinarySearch(_, _, _, _, _)
\* V8 TimSort BinaryInsertionSort's search: left and right are 0-based
BinarySearch(a, pivot, left, right, m) ==
    IF left < right
    THEN LET mid == left + ((right - left) \div 2)
         IN  IF m[pivot][a[mid + 1]] < 0
             THEN BinarySearch(a, pivot, left, mid, m)
             ELSE BinarySearch(a, pivot, mid + 1, right, m)
    ELSE left

RECURSIVE BinaryInsertionSort(_, _, _, _)
\* start is 0-based: a[0..start) is sorted, a[start] is inserted next
BinaryInsertionSort(a, start, n, m) ==
    IF start >= n THEN a
    ELSE LET pivot == a[start + 1]
             left == BinarySearch(a, pivot, 0, start, m)
         IN  BinaryInsertionSort(
                 SubSeq(a, 1, left) \o <<pivot>> \o SubSeq(a, left + 1, start)
                     \o SubSeq(a, start + 2, n),
                 start + 1, n, m)

Reverse(s) == [i \in 1..Len(s) |-> s[Len(s) + 1 - i]]

\* V8 (7.0 and later) ArrayTimSortImpl for fewer than 64 elements (the minimum
\* run length is then the array length): the initial run, reversed when
\* strictly descending, is extended to the whole array by binary insertion
TimSort(n, m) ==
    LET identity == [i \in 1..n |-> i]
    IN  IF n < 2 THEN identity
        ELSE LET isDescending == m[2][1] < 0
                 runLength == RunLength(3, isDescending, n, m)
                 run == IF isDescending
                        THEN Reverse(SubSeq(identity, 1, runLength))
                             \o SubSeq(identity, runLength + 1, n)
                        ELSE identity
             IN  BinaryInsertionSort(run, runLength, n, m)

SortOutcomes(n, m) == {InsertionSort(n, m), TimSort(n, m)}

(***************************************************************************)
(* The fixers, lines 125-173                                               *)
(***************************************************************************)
\* the comparator of lines 127-132
compareMembers(specifierA, specifierB) ==
    LET aName == getSpecifierName(specifierA)
        bName == getSpecifierName(specifierB)
    IN  IF StrLess(bName, aName) THEN 1 ELSE -1

\* compareImports with the operands of the last comparison swapped
compareImportsDescending(prev, current) ==
    LET prevName == getModuleName(prev)
        currentName == getModuleName(current)
        isPrevEmpty == isEmptyImport(prev)
        isCurrentEmpty == isEmptyImport(current)
        isPrevAbsolute == isAbsolute(prevName)
        isCurrentAbsolute == isAbsolute(currentName)
    IN  IF (isPrevEmpty /\ ~isCurrentEmpty) \/ (isPrevAbsolute /\ ~isCurrentAbsolute)
        THEN -1
        ELSE IF (~isPrevEmpty /\ isCurrentEmpty) \/ (~isPrevAbsolute /\ isCurrentAbsolute)
        THEN 1
        ELSE IF prevName = currentName
        THEN 0
        ELSE IF StrLess(prevName, currentName) THEN 1 ELSE -1

\* the comparator of lines 145-166
compareImports(prev, current) ==
    LET prevName == getModuleName(prev)
        currentName == getModuleName(current)
        isPrevEmpty == isEmptyImport(prev)
        isCurrentEmpty == isEmptyImport(current)
        isPrevAbsolute == isAbsolute(prevName)
        isCurrentAbsolute == isAbsolute(currentName)
    IN  IF (isPrevEmpty /\ ~isCurrentEmpty) \/ (isPrevAbsolute /\ ~isCurrentAbsolute)
        THEN -1
        ELSE IF (~isPrevEmpty /\ isCurrentEmpty) \/ (~isPrevAbsolute /\ isCurrentAbsolute)
        THEN 1
        ELSE IF prevName = currentName
        THEN 0
        ELSE IF StrLess(currentName, prevName) THEN 1 ELSE -1

\* imports.slice().sort(comparator), line 145: every order an engine may return
sortedImports(list) ==
    LET n == Len(list)
        m == [i \in 1..n |-> [j \in 1..n |-> compareImports(list[i], list[j])]]
    IN  {[k \in 1..n |-> list[p[k]]] : p \in SortOutcomes(n, m)}

\* specifiers.slice().sort(comparator), line 127
sortedSpecifiers(specifiers) ==
    LET n == Len(specifiers)
        m == [i \in 1..n |-> [j \in 1..n |-> compareMembers(specifiers[i], specifiers[j])]]
    IN  {[k \in 1..n |-> specifiers[p[k]]] : p \in SortOutcomes(n, m)}

isOtherSpecifier(node) == ~isImportSpecifier(node)

\* fixImportMembers applied to a declaration: the span from the first to the
\* last named specifier is replaced by the named specifiers in sorted order
\* (a default specifier precedes the braces and stays where it is)
membersFixed(declaration) ==
    { [declaration EXCEPT !.specifiers =
          SelectSeq(declaration.specifiers, isOtherSpecifier) \o s]
      : s \in sortedSpecifiers(namedSpecifiers(declaration)) }

(***************************************************************************)
(* The rule under ESLint's fix loop                                        *)
(***************************************************************************)
Init ==
    /\ pc = "parsed"
    /\ imports \in ImportLists
    /\ sortMembers \in BOOLEAN
    /\ caseSensitive \in BOOLEAN
    /\ reports = <<>>
    /\ before = <<>>
    /\ text = <<>>
    /\ original = <<>>
    /\ sorted = <<>>
    /\ result = <<>>
    /\ replacement = <<>>

\* the Program handler, lines 42-121: both passes, reports in call order
Program ==
    /\ pc = "parsed"
    /\ reports' = MemberReports(imports) \o DeclReports(imports)
    /\ pc' = "reported"
    /\ UNCHANGED <<imports, sortMembers, caseSensitive, before, spliceVars>>

\* ESLint applies the fix of a report and lints the rewritten module again.
\* The rewrite puts the node texts in the sorted order (sortNodes, SpliceSpec),
\* so the declarations (or specifiers) parsed next are the sorted ones.
ApplyFix ==
    /\ pc = "reported"
    /\ \E k \in 1..Len(reports) :
          LET r == reports[k]
          IN  /\ r.fix # "none"
              /\ IF r.fix = "fixImportDefinitions"
                 THEN /\ imports' \in sortedImports(imports)
                      /\ before' = imports
                 ELSE /\ \E d \in membersFixed(imports[r.index + 1]) :
                            imports' = [imports EXCEPT ![r.index + 1] = d]
                      /\ before' = before
    /\ pc' = "parsed"
    /\ reports' = <<>>
    /\ UNCHANGED <<sortMembers, caseSensitive, spliceVars>>

Next == Program \/ ApplyFix

Spec == Init /\ [][Next]_vars


(***************************************************************************)
(* Gap-Preserving Splicer, lines 195-222, on concrete text                 *)
(***************************************************************************)
\* "a", "bb"
NodeTexts == {<<97>>, <<98, 98>>}

\* "", "\n", ", ", " /**/\n"
Gaps == {<<>>, <<10>>, <<44, 32>>, <<32, 47, 42, 42, 47, 10>>}

\* text before the first node and after the last one: "" or "\n"
Margins == {<<>>, <<10>>}

RECURSIVE LengthBefore(_, _, _)
\* the length of the first i - 1 node texts and the gaps that follow them
LengthBefore(texts, gaps, i) ==
    IF i = 1 THEN 0
    ELSE LengthBefore(texts, gaps, i - 1) + Len(texts[i - 1]) + Len(gaps[i - 1])

\* the parsed nodes: node.range = [start, end), 0-based offsets into the text
ParsedNodes(prefix, texts, gaps) ==
    [i \in 1..Len(texts) |->
        LET start == Len(prefix) + LengthBefore(texts, gaps, i)
        IN  [range |-> <<start, start + Len(texts[i])>>]]

SourceText(prefix, texts, gaps, suffix) ==
    prefix
    \o ConcatAll([i \in 1..Len(texts) |->
                     texts[i] \o (IF i < Len(texts) THEN gaps[i] ELSE <<>>)])
    \o suffix

Reorderings(s) ==
    {[i \in 1..Len(s) |-> s[p[i]]] :
        p \in {q \in [1..Len(s) -> 1..Len(s)] : \A i, j \in 1..Len(s) : q[i] = q[j] => i = j}}

\* node.range[0], node.range[1]
rangeStart(node) == node.range[1]
rangeEnd(node) == node.range[2]

\* source.getText(node)
getText(node) == slice(text, rangeStart(node), rangeEnd(node))

\* getCodeBetween sliced from range[0] of nodeA instead of range[1]
getCodeBetweenStarts(nodeA, nodeB) == slice(text, rangeStart(nodeA), rangeStart(nodeB))

\* lines 220-222
getCodeBetween(nodeA, nodeB) == slice(text, rangeEnd(nodeA), rangeStart(nodeB))

\* Array.prototype.indexOf, 0-based (nodes are distinct objects with distinct ranges)
indexOf(array, node) == (CHOOSE k \in 1..Len(array) : array[k] = node) - 1

\* sortNodes without the `index !== 0` test: a line break before the first
\* node even when it stays first
sortNodesBreakAlways(originalNodes, sortedNodes) ==
    ConcatAll([i \in 1..Len(sortedNodes) |->
        LET node == sortedNodes[i]
            oldIndex == indexOf(originalNodes, node)
            beforeText ==
                IF oldIndex # 0
                THEN getCodeBetween(originalNodes[oldIndex], originalNodes[oldIndex + 1])
                ELSE <<10>>
        IN  beforeText \o getText(node)])

\* lines 195-211: the reduce appends before + source.getText(node) for each
\* node of sorted; index (0-based) is i - 1
sortNodes(originalNodes, sortedNodes) ==
    ConcatAll([i \in 1..Len(sortedNodes) |->
        LET node == sortedNodes[i]
            index == i - 1
            oldIndex == indexOf(originalNodes, node)
            beforeText ==
                IF oldIndex # 0
                \* original[oldIndex - 1], original[oldIndex] as 1-based positions
                THEN getCodeBetween(originalNodes[oldIndex], originalNodes[oldIndex + 1])
                ELSE IF index # 0 THEN <<10>>
                ELSE <<>>
        IN  beforeText \o getText(node)])

SpliceInit ==
    /\ pc = "ready"
    /\ \E n \in 1..MaxNodes :
         \E texts \in [1..n -> NodeTexts], gaps \in [1..(n - 1) -> Gaps],
            prefix \in Margins, suffix \in Margins :
            /\ text = SourceText(prefix, texts, gaps, suffix)
            /\ original = ParsedNodes(prefix, texts, gaps)
            /\ sorted \in Reorderings(ParsedNodes(prefix, texts, gaps))
    /\ result = <<>>
    /\ replacement = [range |-> <<0, 0>>, text |-> <<>>]
    /\ imports = <<>>
    /\ sortMembers = TRUE
    /\ caseSensitive = FALSE
    /\ reports = <<>>
    /\ before = <<>>

\* the fixer callbacks of lines 126-139 and 144-172 from the sort on:
\* fixer.replaceTextRange([first.range[0], last.range[1]], sortNodes(...).trim())
Fixer ==
    /\ pc = "ready"
    /\ result' = sortNodes(original, sorted)
    /\ replacement' =
          [range |-> <<rangeStart(original[1]), rangeEnd(original[Len(original)])>>,
           text |-> trim(sortNodes(original, sorted))]
    /\ pc' = "fixed"
    /\ UNCHANGED <<text, original, sorted, ruleVars>>

SpliceNext == Fixer

SpliceSpec == SpliceInit /\ [][SpliceNext]_vars


(***************************************************************************)
(* Properties                                                              *)
(***************************************************************************)
OrderKinds ==
    {"EmptyImportOutOfOrder", "AbsoluteImportOutOfOrder", "AlphabeticalOutOfOrder"}

DeclKinds == OrderKinds \cup {"DuplicateModule"}

\* the positions in reports of the reports of the given kinds
ReportsOf(kinds) == {k \in 1..Len(reports) : reports[k].kind \in kinds}

\* the Declaration Order Checker has run and reported nothing for any pair
Accepted == pc = "reported" /\ ReportsOf(DeclKinds) = {}

\* C1: with sortMembers on, each import statement gets an UnsortedBinding
\* report exactly when some named binding's sort key is smaller than the
\* previous binding's, and the report is on the first such binding.
C1_FirstUnsortedBindingReported ==
    (pc = "reported" /\ sortMembers) =>
        \A i \in 1..Len(imports) :
            LET keys == specifierNames(imports[i])
                unsorted == {j \in 2..Len(keys) : StrLess(keys[j], keys[j - 1])}
                rs == {k \in ReportsOf({"UnsortedBinding"}) : reports[k].index = i - 1}
            IN  IF unsorted = {} THEN rs = {}
                ELSE /\ Cardinality(rs) = 1
                     /\ \A k \in rs : reports[k].member = Min(unsorted) - 1

\* the violation the decision sequence of the specification gives a pair
ExpectedKind(prev, current) ==
    LET sameModule == prev.source = current.source
        prevEmpty == prev.specifiers = <<>>
        currentEmpty == current.specifiers = <<>>
        prevRelative == Len(prev.source) > 0 /\ Head(prev.source) = 46
        currentRelative == Len(current.source) > 0 /\ Head(current.source) = 46
    IN  CASE sameModule -> "DuplicateModule"
          [] ~sameModule /\ ((prevEmpty /\ ~currentEmpty) \/ (~prevRelative /\ currentRelative))
                -> "none"
          [] ~sameModule /\ ~prevEmpty /\ currentEmpty /\ ~(~prevRelative /\ currentRelative)
                -> "EmptyImportOutOfOrder"
          [] ~sameModule /\ prevEmpty = currentEmpty /\ prevRelative /\ ~currentRelative
                -> "AbsoluteImportOutOfOrder"
          [] ~sameModule /\ prevEmpty = currentEmpty /\ prevRelative = currentRelative
                /\ StrLess(current.source, prev.source)
                -> "AlphabeticalOutOfOrder"
          [] OTHER -> "none"

\* C2: every adjacent pair gets at most one report, the first match of:
\* duplicate, short-circuit (no report), empty out of order, absolute out of
\* order, alphabetical out of order, else none; the first statement gets none.
C2_FirstMatchWins ==
    pc = "reported" =>
        \A i \in 1..Len(imports) :
            LET rs == {k \in ReportsOf(DeclKinds) : reports[k].index = i - 1}
                expected == IF i = 1 THEN "none"
                            ELSE ExpectedKind(imports[i - 1], imports[i])
            IN  IF expected = "none" THEN rs = {}
                ELSE /\ Cardinality(rs) = 1
                     /\ \A k \in rs : reports[k].kind = expected

\* three pairs' worth: a list with a reported pair and a pair left alone
C2_Witness ==
    /\ pc = "reported"
    /\ Len(imports) = 3
    /\ Cardinality(ReportsOf(DeclKinds)) = 1
    /\ ReportsOf({"AbsoluteImportOutOfOrder"}) # {}

\* C3: in an accepted list every absolute statement precedes every relative one.
C3_AbsoluteBeforeRelative ==
    Accepted =>
        \A i, j \in 1..Len(imports) :
            i < j => ~(~isAbsolute(imports[i].source) /\ isAbsolute(imports[j].source))

\* C4 as stated: in an accepted list no two statements share a module identifier.
C4_NoDuplicateAnywhere ==
    Accepted =>
        \A i, j \in 1..Len(imports) : i < j => imports[i].source # imports[j].source

\* C4 amended: in an accepted list no two adjacent statements share a module
\* identifier.
C4_NoAdjacentDuplicate ==
    Accepted =>
        \A i \in 1..(Len(imports) - 1) : imports[i].source # imports[i + 1].source

\* an accepted list of three whose first and last statements import the same module
C4_Witness ==
    /\ Accepted
    /\ Len(imports) = 3
    /\ imports[1].source = imports[3].source

\* C5: the checker, run on the list a whole-block rewrite produced, reports no
\* empty, absolute or alphabetical out-of-order violation.
C5_OneFixConverges ==
    (pc = "reported" /\ before # <<>>) => ReportsOf(OrderKinds) = {}

\* the checker has run again on a list of three that the rewrite reordered
C5_Witness ==
    /\ pc = "reported"
    /\ before # <<>>
    /\ Len(imports) = 3
    /\ imports # before
    /\ \E i \in 1..3 : isEmptyImport(imports[i])
    /\ \E i \in 1..3 : ~isAbsolute(imports[i].source)

\* the composite key (not isEmpty, not isAbsolute, moduleIdentifier), compared
\* component by component
KeyLess(a, b) ==
    LET ea == IF a.specifiers = <<>> THEN 0 ELSE 1
        eb == IF b.specifiers = <<>> THEN 0 ELSE 1
        ra == IF isAbsolute(a.source) THEN 0 ELSE 1
        rb == IF isAbsolute(b.source) THEN 0 ELSE 1
    IN  \/ ea < eb
        \/ ea = eb /\ ra < rb
        \/ ea = eb /\ ra = rb /\ StrLess(a.source, b.source)

PositionIn(list, node) == CHOOSE k \in 1..Len(list) : list[k] = node

\* res is list stably sorted by the composite key
IsStableSortByKey(res, list) ==
    /\ Len(res) = Len(list)
    /\ {res[k] : k \in 1..Len(res)} = {list[k] : k \in 1..Len(list)}
    /\ \A i, j \in 1..Len(res) :
          i < j => /\ ~KeyLess(res[j], res[i])
                   /\ ~KeyLess(res[i], res[j])
                        => PositionIn(list, res[i]) < PositionIn(list, res[j])

\* C6: the order the whole-block rewrite produces is the stable sort of the
\* original list by the composite key.
C6_TargetIsStableSortByKey ==
    (pc = "parsed" /\ before # <<>>) => IsStableSortByKey(imports, before)

\* C10: on the statements of a list being rewritten, the comparator gives
\* opposite signs to (a, b) and (b, a) whenever the module identifiers
\* differ, and the sort has a single outcome.
C10_ComparatorConsistent ==
    (pc = "parsed" /\ before # <<>>) =>
        /\ \A i, j \in 1..Len(before) :
              before[i].source # before[j].source
                 => compareImports(before[i], before[j])
                       = 0 - compareImports(before[j], before[i])
        /\ Cardinality(sortedImports(before)) = 1

\* C9: a DuplicateModule report never carries a fix; a report of any other
\* kind always does.
C9_FixIffNotDuplicate ==
    pc = "reported" =>
        \A k \in 1..Len(reports) :
            (reports[k].kind = "DuplicateModule") <=> (reports[k].fix = "none")

\* a run that reported a duplicate and an out-of-order pair
C9_Witness ==
    /\ pc = "reported"
    /\ ReportsOf({"DuplicateModule"}) # {}
    /\ ReportsOf(OrderKinds) # {}

\* the text of the span from the first node's start to the last node's end
SpanText == slice(text, rangeStart(original[1]), rangeEnd(original[Len(original)]))

\* C7: spliced to the order they already have, the nodes give back the
\* trimmed text of their span.
C7_IdentityPreservesText ==
    (pc = "fixed" /\ sorted = original) => replacement.text = trim(SpanText)

\* three nodes kept in place with a comment in a gap
C7_Witness ==
    /\ pc = "fixed"
    /\ sorted = original
    /\ Len(original) = 3
    /\ \E i \in 1..2 : rangeStart(original[i + 1]) - rangeEnd(original[i]) > 2

\* what precedes the node at 1-based position i of the target: the gap that
\* preceded it in the source, or a line break for the first node when moved
ExpectedBefore(i) ==
    LET o == PositionIn(original, sorted[i])
    IN  IF o > 1
        THEN SubSeq(text, rangeEnd(original[o - 1]) + 1, rangeStart(original[o]))
        ELSE IF i > 1 THEN <<10>> ELSE <<>>

NodeText(i) == SubSeq(text, rangeStart(sorted[i]) + 1, rangeEnd(sorted[i]))

RECURSIVE ExpectedOffset(_)
\* where the part for target position i starts in the output (0-based)
ExpectedOffset(i) ==
    IF i = 1 THEN 0
    ELSE ExpectedOffset(i - 1) + Len(ExpectedBefore(i - 1)) + Len(NodeText(i - 1))

\* C8: the output is, in target order, each node's text preceded by the gap
\* that preceded the node in the source; its length is that of the span, plus
\* one line break when the first node has moved; nothing else is in it.
C8_NothingLostOrDuplicated ==
    pc = "fixed" =>
        /\ Len(result) = Len(SpanText) + (IF sorted[1] = original[1] THEN 0 ELSE 1)
        /\ \A i \in 1..Len(sorted) :
              LET at == ExpectedOffset(i)
                  gap == ExpectedBefore(i)
              IN  /\ SubSeq(result, at + 1, at + Len(gap)) = gap
                  /\ SubSeq(result, at + Len(gap) + 1, at + Len(gap) + Len(NodeText(i)))
                        = NodeText(i)
        /\ \E lead, trail \in 0..Len(result) :
              /\ replacement.text = SubSeq(result, lead + 1, Len(result) - trail)
              /\ \A k \in (1..lead) \cup ((Len(result) - trail + 1)..Len(result)) :
                    result[k] \in WhiteSpace

\* three nodes, the first moved to the end, a comment in a gap
C8_Witness ==
    /\ pc = "fixed"
    /\ Len(original) = 3
    /\ sorted[3] = original[1]
    /\ sorted[1] = original[3]
    /\ \E i \in 1..2 : rangeStart(original[i + 1]) - rangeEnd(original[i]) > 2

====
